---------------------------- MODULE Spec2Model ----------------------------
(***************************************************************************)
(* A model of the 3ersi.ai wedding-planner backend (src/main.py,           *)
(* src/schemas.py): the rule-based helpers (regional_allocations,          *)
(* arabic_checklist, build_budget, convert, assist), the vendor            *)
(* recommender and the two request handlers that write the preference      *)
(* collection (create_preferences, generate_plan), run by concurrent       *)
(* workers against one document store, and the vendor seeding handler      *)
(* (seed_vendors).                                                         *)
(*                                                                         *)
(* Representation                                                          *)
(*   - Optional[T]: None is <<>>, a present value v is <<v>>.               *)
(*   - money in generate_plan / build_budget / recommend_vendors is a      *)
(*     Python float: an IEEE 754 double m * 2^e with a mantissa of 53      *)
(*     binary digits, kept as a natural number of any size.  Products,     *)
(*     quotients and round(x, 2) are rounded as the double arithmetic      *)
(*     rounds them (to nearest, a tie to the even mantissa).               *)
(*   - the budget of an AssistRequest is counted in hundreds of the        *)
(*     currency's units (30000 USD in LBP is 2 685 000 000 units).          *)
(*   - an exchange rate is the rational <<num, den>> its literal is        *)
(*     written as; assist compares budgets in these rationals, the float   *)
(*     helpers use the double nearest to the rate.                         *)
(*   - display texts (checklist labels, tips) are named by ASCII keys; a   *)
(*     reply "\n".join(tips) is the sequence of its lines.                 *)
(***************************************************************************)
EXTENDS Integers, Sequences, FiniteSets, TLC

VARIABLES
    db,        \* database.db is not None (the connection made at import)
    vendors,   \* the "vendor" collection, in storage order
    prefs,     \* the "userpreference" collection, in storage order
    inquiries, \* the "inquiry" collection, in storage order
    next_oid,  \* the store's next identifier
    pc,        \* each worker's position in its handler
    req,       \* each worker's request body
    pref_id,   \* generate_plan's local pref_id
    rv,        \* the frame of the loop a worker is in: recommend_vendors' region,
               \* categories, limit, cat index and recs, or seed_vendors' sample
               \* index and created
    resp,      \* each worker's HTTP outcome: None, or the returned body
    oplog,     \* history: the store calls each worker issued for its request
    hist,      \* history: requests accepted, the collection at start, payloads
               \* inserted, seed_vendors calls returned
    call,      \* the pure function under call and its argument
    ret        \* None, or what the call returned

vars == <<db, vendors, prefs, inquiries, next_oid, pc, req, pref_id, rv, resp, oplog, hist, call, ret>>
storeVars == <<db, vendors, prefs, inquiries, next_oid>>
workerVars == <<pc, req, pref_id, rv, resp, oplog, hist>>
pureVars == <<call, ret>>

None == <<>>
Some(v) == <<v>>

RECURSIVE SumSeq(_)
SumSeq(s) == IF s = <<>> THEN 0 ELSE Head(s) + SumSeq(Tail(s))

(***************************************************************************)
(* Natural numbers of any size: the sequence of their digits in base       *)
(* Limb, lowest first, without leading zeros (0 is <<>>).                   *)
(***************************************************************************)
Limb == 32768
LimbBits == 15

RECURSIVE BNorm(_)
BNorm(a) == IF a = <<>> THEN a
            ELSE IF a[Len(a)] = 0 THEN BNorm(SubSeq(a, 1, Len(a) - 1)) ELSE a

RECURSIVE BInt(_)
\* the natural number n
BInt(n) == IF n = 0 THEN <<>> ELSE <<n % Limb>> \o BInt(n \div Limb)

RECURSIVE BCmpFrom(_, _, _)
BCmpFrom(a, b, j) ==
    IF j = 0 THEN 0
    ELSE IF a[j] < b[j] THEN 0 - 1
    ELSE IF a[j] > b[j] THEN 1
    ELSE BCmpFrom(a, b, j - 1)

\* -1, 0, 1 as a < b, a = b, a > b
BCmp(a, b) ==
    IF Len(a) < Len(b) THEN 0 - 1
    ELSE IF Len(a) > Len(b) THEN 1
    ELSE BCmpFrom(a, b, Len(a))

RECURSIVE BAddC(_, _, _)
BAddC(a, b, c) ==
    IF a = <<>> /\ b = <<>> THEN (IF c = 0 THEN <<>> ELSE <<c>>)
    ELSE LET x == IF a = <<>> THEN 0 ELSE a[1]
             y == IF b = <<>> THEN 0 ELSE b[1]
             s == x + y + c
         IN  <<s % Limb>> \o BAddC(IF a = <<>> THEN a ELSE Tail(a),
                                   IF b = <<>> THEN b ELSE Tail(b), s \div Limb)

BAdd(a, b) == BAddC(a, b, 0)

RECURSIVE BSubC(_, _, _)
BSubC(a, b, c) ==
    IF a = <<>> THEN <<>>
    ELSE LET y == IF b = <<>> THEN 0 ELSE b[1]
             d == a[1] - y - c
         IN  <<IF d < 0 THEN d + Limb ELSE d>>
             \o BSubC(Tail(a), IF b = <<>> THEN b ELSE Tail(b), IF d < 0 THEN 1 ELSE 0)

\* a - b, for a >= b
BSub(a, b) == BNorm(BSubC(a, b, 0))

\* |a - b|
BDist(a, b) == IF BCmp(a, b) < 0 THEN BSub(b, a) ELSE BSub(a, b)

RECURSIVE BMulSC(_, _, _)
BMulSC(a, k, c) ==
    IF a = <<>> THEN (IF c = 0 THEN <<>> ELSE <<c>>)
    ELSE LET s == a[1] * k + c
         IN  <<s % Limb>> \o BMulSC(Tail(a), k, s \div Limb)

\* a * k, for 0 <= k < Limb
BMulS(a, k) == IF k = 0 THEN <<>> ELSE BMulSC(a, k, 0)

\* a * Limb
BUp(a) == IF a = <<>> THEN a ELSE <<0>> \o a

RECURSIVE BMul(_, _)
BMul(a, b) ==
    IF b = <<>> THEN <<>>
    ELSE BAdd(BMulS(a, b[1]), BUp(BMul(a, Tail(b))))

\* a * 2^n
BShl(a, n) ==
    LET low == BMulS(a, 2^(n % LimbBits))
    IN  IF low = <<>> THEN low ELSE [j \in 1..(n \div LimbBits) |-> 0] \o low

RECURSIVE BDivS(_, _)
\* a \div k and a % k, for 0 < k <= Limb
BDivS(a, k) ==
    IF a = <<>> THEN [q |-> <<>>, r |-> 0]
    ELSE LET high == BDivS(Tail(a), k)
             taken == high.r * Limb + a[1]
         IN  [q |-> IF taken < k /\ high.q = <<>> THEN <<>>
                    ELSE <<taken \div k>> \o high.q,
              r |-> taken % k]


\* a \div 2^n
BShr(a, n) ==
    LET drop == n \div LimbBits
    IN  IF drop >= Len(a) THEN <<>>
        ELSE BDivS(SubSeq(a, drop + 1, Len(a)), 2^(n % LimbBits)).q

\* the number of binary digits of n < Limb
BitsOf(n) == CHOOSE k \in 0..LimbBits : n < 2^k /\ (k = 0 \/ 2^(k - 1) <= n)

\* the number of binary digits of a
BBits(a) == IF a = <<>> THEN 0 ELSE (Len(a) - 1) * LimbBits + BitsOf(a[Len(a)])

RECURSIVE BDigit(_, _, _, _)
\* the largest t + u with u < 2^(bit + 1) and b * (t + u) <= r
BDigit(r, b, bit, t) ==
    IF bit < 0 THEN t
    ELSE IF BCmp(BMulS(b, t + 2^bit), r) <= 0
         THEN BDigit(r, b, bit - 1, t + 2^bit)
         ELSE BDigit(r, b, bit - 1, t)

RECURSIVE BDivL(_, _)
\* long division of a by b, the highest digit of a first
BDivL(a, b) ==
    IF a = <<>> THEN [q |-> <<>>, r |-> <<>>]
    ELSE LET high == BDivL(Tail(a), b)
             taken == BAdd(BUp(high.r), BInt(a[1]))
             t == BDigit(taken, b, LimbBits - 1, 0)
         IN  IF high.r = <<>> /\ a[1] = 0
             THEN [q |-> BUp(high.q), r |-> <<>>]
             ELSE [q |-> IF t = 0 /\ high.q = <<>> THEN <<>> ELSE <<t>> \o high.q,
                   r |-> BSub(taken, BMulS(b, t))]

\* a quotient and remainder of BDivS, the remainder as a sequence of digits
BDivSBig(dv) == [q |-> dv.q, r |-> BInt(dv.r)]

\* a \div b and a % b, for b > 0
BDiv(a, b) ==
    IF b = <<1>> THEN [q |-> a, r |-> <<>>]
    ELSE IF Len(b) = 1 THEN BDivSBig(BDivS(a, b[1]))
    ELSE BDivL(a, b)

RECURSIVE BPow10(_)
BPow10(n) == IF n < 10 THEN BInt(10^n) ELSE BMul(BPow10(n - 9), BInt(10^9))

RECURSIVE BDec(_)
\* the natural number written with the decimal digits ds, highest first
BDec(ds) == IF ds = <<>> THEN <<>>
            ELSE BAdd(BMulS(BDec(SubSeq(ds, 1, Len(ds) - 1)), 10), BInt(ds[Len(ds)]))

(***************************************************************************)
(* Python floats (IEEE 754 doubles, normal range): 0 is [m |-> <<>>,       *)
(* e |-> 0], any other value m * 2^e with m of exactly 53 binary digits.   *)
(***************************************************************************)
MantBits == 53

FZero == [m |-> <<>>, e |-> 0]

\* q / 2^r rounded to an integer, a half going to the even neighbour; more
\* says that q has lost a non-zero remainder below its last digit
RoundShr(q, r, more) ==
    IF r = 0 THEN q
    ELSE LET hi == BShr(q, r)
             low == BSub(q, BShl(hi, r))
             c == BCmp(low, BShl(<<1>>, r - 1))
             odd == hi # <<>> /\ hi[1] % 2 = 1
             up == c > 0 \/ (c = 0 /\ (more \/ odd))
         IN  IF up THEN BAdd(hi, <<1>>) ELSE hi

\* the float of mantissa m and exponent e, m of MantBits digits or one more
FlNorm(m, e) ==
    IF BBits(m) > MantBits THEN [m |-> BShr(m, 1), e |-> e + 1]
    ELSE [m |-> m, e |-> e]

\* the float nearest to a quotient dv that is worth 2^e a unit; lost says that
\* the dividend has lost a non-zero remainder already
FlRound(dv, e, lost) ==
    FlNorm(RoundShr(dv.q, BBits(dv.q) - MantBits, lost \/ dv.r # <<>>),
           e + BBits(dv.q) - MantBits)

\* the float nearest to (n / d) * 2^e for n cut to its digits from the k-th up
FlCut(n, d, e, k, cut) == FlRound(BDiv(cut, d), e + k, BShl(cut, k) # n)

\* the float nearest to (n / d) * 2^e, a tie going to the even mantissa; k
\* is the shift of n that gives the quotient one digit more than a mantissa
FlShifted(n, d, e, k) ==
    IF k < 0 THEN FlCut(n, d, e, 0 - k, BShr(n, 0 - k))
    ELSE FlRound(BDiv(BShl(n, k), d), e - k, FALSE)

\* the float nearest to (n / d) * 2^e, a tie going to the even mantissa
Fl(n, d, e) ==
    IF n = <<>> THEN FZero
    ELSE FlShifted(n, d, e, MantBits + 1 - (BBits(n) - BBits(d)))

\* float(n) of an int
float(n) == Fl(BInt(n), <<1>>, 0)

\* the float a decimal literal n * 10^k denotes
literal(n, k) == IF k >= 0 THEN Fl(BMul(n, BPow10(k)), <<1>>, 0)
                 ELSE Fl(n, BPow10(0 - k), 0)

RECURSIVE LowZeros(_)
\* the number of zero digits at the low end of a > 0
LowZeros(a) == IF a[1] # 0 THEN 0 ELSE 1 + LowZeros(Tail(a))

\* x * y
FMul(x, y) == Fl(BMul(x.m, y.m), <<1>>, x.e + y.e)

\* x / y, the divisor's mantissa without the zero digits at its low end
FDiv(x, y) ==
    Fl(x.m, SubSeq(y.m, LowZeros(y.m) + 1, Len(y.m)),
       x.e - y.e - LowZeros(y.m) * LimbBits)

\* x * 10^ndigits rounded to an integer, a half going to the even neighbour
Scaled(x, ndigits) ==
    LET n == BMul(x.m, BPow10(ndigits))
    IN  IF x.e >= 0 THEN BShl(n, x.e) ELSE RoundShr(n, 0 - x.e, FALSE)

\* round(x, ndigits) of a float x >= 0, ndigits >= 0: the float nearest to
\* the decimal of ndigits places nearest to x
round(x, ndigits) == Fl(Scaled(x, ndigits), BPow10(ndigits), 0)

(***************************************************************************)
(* Exact rationals, kept in lowest terms so that products stay small.      *)
(***************************************************************************)
RECURSIVE GCD(_, _)
GCD(a, b) == IF b = 0 THEN a ELSE GCD(b, a % b)

Norm(q) == LET g == GCD(q[1], q[2]) IN IF g = 0 THEN q ELSE <<q[1] \div g, q[2] \div g>>

RMul(a, b) ==
    LET x == Norm(a)
        y == Norm(b)
        g1 == GCD(x[1], y[2])
        g2 == GCD(y[1], x[2])
        h1 == IF g1 = 0 THEN 1 ELSE g1
        h2 == IF g2 = 0 THEN 1 ELSE g2
    IN  <<(x[1] \div h1) * (y[1] \div h2), (x[2] \div h2) * (y[2] \div h1)>>

RDiv(a, b) == RMul(a, <<b[2], b[1]>>)

RLess(a, b) == LET x == Norm(a)
                   y == Norm(b)
               IN  x[1] * y[2] < y[1] * x[2]

\* ---------- schemas.py ----------
Region == {"lebanon", "gcc", "egypt"}
Currency == {"USD", "LBP", "AED", "SAR", "EGP"}
MinGuests == 1
MaxGuests == 2000

\* ---------- FX + Currency Helpers ----------
Currencies == <<"USD", "AED", "SAR", "EGP", "LBP">>

FX_RATES == [c \in {Currencies[i] : i \in 1..Len(Currencies)} |->
               CASE c = "USD" -> <<1, 1>>
                 [] c = "AED" -> <<367, 100>>
                 [] c = "SAR" -> <<375, 100>>
                 [] c = "EGP" -> <<48, 1>>
                 [] c = "LBP" -> <<89500, 1>>]

\* FX_RATES.get(key, 1.0)
FX_RATES_get(key) == IF key \in DOMAIN FX_RATES THEN FX_RATES[key] ELSE <<1, 1>>

\* str.upper() on the currency codes the model uses
upper(s) == CASE s = "usd" -> "USD"
              [] s = "aed" -> "AED"
              [] s = "sar" -> "SAR"
              [] s = "egp" -> "EGP"
              [] s = "lbp" -> "LBP"
              [] OTHER -> s

\* the float a rate's literal denotes
rate_float(q) == Fl(BInt(q[1]), BInt(q[2]), 0)

\* convert(amount_usd, currency) == round(amount_usd * rate, 2)
convert(amount_usd, currency) ==
    round(FMul(amount_usd, rate_float(FX_RATES_get(upper(currency)))), 2)


\* ---------- AI-like Plan Generation (rule-based) ----------
ChecklistItem(label, category, due_months_before, optional) ==
    [label |-> label, category |-> category,
     due_months_before |-> due_months_before, optional |-> optional]

ValetThreshold == 300

ValetItem == ChecklistItem("confirm_valet_parking", "logistics", 2, FALSE)

\* a faulty variant: the valet item already at the threshold itself
arabic_checklist_valet_at_threshold(guest_count) ==
    LET base == <<
            ChecklistItem("set_full_budget", "planning", 12, FALSE),
            ChecklistItem("choose_hall_or_venue", "venue", 11, FALSE),
            ChecklistItem("book_band_or_dj", "entertainment", 9, FALSE),
            ChecklistItem("design_decor_and_flowers", "florals", 6, FALSE),
            ChecklistItem("book_zaffe", "entertainment", 5, TRUE),
            ChecklistItem("photo_and_video", "media", 7, FALSE),
            ChecklistItem("invitations_and_cards", "paperwork", 3, FALSE),
            ChecklistItem("final_rehearsal_and_day_schedule", "logistics", 1, FALSE) >>
    IN  IF guest_count >= ValetThreshold THEN Append(base, ValetItem) ELSE base

arabic_checklist(guest_count) ==
    LET base == <<
            ChecklistItem("set_full_budget", "planning", 12, FALSE),
            ChecklistItem("choose_hall_or_venue", "venue", 11, FALSE),
            ChecklistItem("book_band_or_dj", "entertainment", 9, FALSE),
            ChecklistItem("design_decor_and_flowers", "florals", 6, FALSE),
            ChecklistItem("book_zaffe", "entertainment", 5, TRUE),
            ChecklistItem("photo_and_video", "media", 7, FALSE),
            ChecklistItem("invitations_and_cards", "paperwork", 3, FALSE),
            ChecklistItem("final_rehearsal_and_day_schedule", "logistics", 1, FALSE) >>
    IN  IF guest_count > ValetThreshold THEN Append(base, ValetItem) ELSE base

Alloc(category, pct) == [category |-> category, pct |-> pct]

\* a dict in insertion order: the sequence of its (key, value) pairs
regional_allocations(region) ==
    IF region = "gcc" THEN <<
        Alloc("venue", 30), Alloc("catering", 20), Alloc("decor", 12),
        Alloc("florals", 8), Alloc("media", 8), Alloc("entertainment", 10),
        Alloc("beauty", 4), Alloc("attire", 4), Alloc("stationery", 2),
        Alloc("misc", 2) >>
    ELSE IF region = "egypt" THEN <<
        Alloc("venue", 22), Alloc("catering", 25), Alloc("decor", 10),
        Alloc("florals", 6), Alloc("media", 8), Alloc("entertainment", 8),
        Alloc("beauty", 5), Alloc("attire", 5), Alloc("stationery", 3),
        Alloc("misc", 3) >>
    ELSE <<
        Alloc("venue", 28), Alloc("catering", 22), Alloc("decor", 12),
        Alloc("florals", 8), Alloc("media", 8), Alloc("entertainment", 8),
        Alloc("beauty", 5), Alloc("attire", 5), Alloc("stationery", 2),
        Alloc("misc", 2) >>

BudgetItem(category, allocation_percent, amount) ==
    [category |-> category, allocation_percent |-> allocation_percent,
     amount |-> amount, notes |-> None]

\* a budget written as the decimal n / 100
Money(n) == literal(BInt(n), 0 - 2)

\* budgets of build_budget
BudgetArgs == {Money(n) : n \in {0, 1, 25, 50, 99, 150, 12345, 5000000}}

\* budgets of a preference: 0, 0.25, 1.50, 123.45, 50000.00, the largest
\* budgets of whole cents the amended C6 covers (99999999999.99 and 10^11),
\* 10^16, and 0.017857142857142856, which is not a whole number of cents
PlanBudgets ==
    {Money(n) : n \in {0, 25, 150, 12345, 5000000}} \cup
    {literal(BSub(BPow10(13), <<1>>), 0 - 2), literal(BPow10(11), 0),
     literal(BPow10(16), 0),
     literal(BDec(<<1, 7, 8, 5, 7, 1, 4, 2, 8, 5, 7, 1, 4, 2, 8, 5, 6>>), 0 - 18)}

\* line 253: amount_usd of one category's line of build_budget
amount_usd(total, pct, currency) ==
    IF currency = "USD"
    THEN FMul(total, FDiv(float(pct), float(100)))
    ELSE FMul(FDiv(total, rate_float(FX_RATES_get(currency))), FDiv(float(pct), float(100)))

\* a faulty variant: the amount cut to cents instead of rounded
budget_amounts_truncated(total, pct, currency) ==
    LET amount == FMul(amount_usd(total, pct, currency),
                       rate_float(FX_RATES_get(upper(currency))))
        hundredths == BMulS(amount.m, 100)
    IN  Fl(IF amount.e >= 0 THEN BShl(hundredths, amount.e)
           ELSE BShr(hundredths, 0 - amount.e), BInt(100), 0)

\* lines 253-255: the amount of one category's line of build_budget
budget_amounts(total, pct, currency) ==
    round(convert(amount_usd(total, pct, currency), currency), 2)

\* budget_amounts over the budgets, percentages and currencies the
\* specifications draw from, computed once
TabledTotals == BudgetArgs \cup PlanBudgets
TabledPcts ==
    UNION {{regional_allocations(g)[i].pct : i \in 1..Len(regional_allocations(g))} :
           g \in {"lebanon", "gcc", "egypt"}}
AmountTable ==
    [total \in TabledTotals |-> [currency \in Currency |-> [pct \in TabledPcts |->
        budget_amounts(total, pct, currency)]]]

\* round(total, 2) over the same budgets, computed once
RoundedTotal == [total \in TabledTotals |-> round(total, 2)]

\* build_budget(total, region, currency)
build_budget(total, region, currency) ==
    LET alloc == regional_allocations(region)
        tabled == total \in TabledTotals /\ currency \in Currency
        row == AmountTable[total][currency]
    IN  [i \in 1..Len(alloc) |->
            BudgetItem(alloc[i].category, alloc[i].pct,
                       IF tabled /\ alloc[i].pct \in TabledPcts
                       THEN row[alloc[i].pct]
                       ELSE budget_amounts(total, alloc[i].pct, currency))]

\* ---------- Simple Co-planner Assistant (rule-based) ----------
AssistRequest(message, region, budget, currency, style, guest_count) ==
    [message |-> message, region |-> region, budget |-> budget,
     currency |-> currency, style |-> style, guest_count |-> guest_count]

LargeGuestList == 300
LimitedBelow == 30000
MediumBelow == 80000

\* Python truthiness of an Optional[str], Optional[float], Optional[int]
truthy_str(o) == o # None /\ o[1] # ""
truthy_num(o) == o # None /\ o[1] # 0

\* the budget tip of assist, for a budget that passed `if req.budget`
budget_tip(r) ==
    LET budget_usd == IF r.currency = Some("USD") THEN <<r.budget[1], 1>>
                      ELSE RDiv(<<r.budget[1], 1>>,
                                FX_RATES_get(IF r.currency # None THEN r.currency[1] ELSE "USD"))
    IN  IF RLess(budget_usd, <<LimitedBelow, 100>>) THEN <<"budget_limited">>
        ELSE IF RLess(budget_usd, <<MediumBelow, 100>>) THEN <<"budget_medium">>
        ELSE <<"budget_high">>

\* a faulty variant: the fallback prompt echoes the message
assist_reads_message(r) ==
    LET t1 == IF truthy_str(r.style) THEN << <<"style", r.style[1]>> >> ELSE <<>>
        t2 == IF r.region = Some("gcc") THEN << <<"gcc">> >> ELSE <<>>
        t3 == IF r.region = Some("lebanon") THEN << <<"lebanon">> >> ELSE <<>>
        t4 == IF r.region = Some("egypt") THEN << <<"egypt">> >> ELSE <<>>
        t5 == IF truthy_num(r.guest_count) /\ r.guest_count[1] > LargeGuestList
              THEN << <<"large_guest_list">> >> ELSE <<>>
        t6 == IF truthy_num(r.budget) THEN <<budget_tip(r)>> ELSE <<>>
        tips == t1 \o t2 \o t3 \o t4 \o t5 \o t6
    IN  [reply |-> IF tips = <<>> THEN << <<"fallback_prompt", r.message>> >> ELSE tips]

assist(r) ==
    LET t1 == IF truthy_str(r.style) THEN << <<"style", r.style[1]>> >> ELSE <<>>
        t2 == IF r.region = Some("gcc") THEN << <<"gcc">> >> ELSE <<>>
        t3 == IF r.region = Some("lebanon") THEN << <<"lebanon">> >> ELSE <<>>
        t4 == IF r.region = Some("egypt") THEN << <<"egypt">> >> ELSE <<>>
        t5 == IF truthy_num(r.guest_count) /\ r.guest_count[1] > LargeGuestList
              THEN << <<"large_guest_list">> >> ELSE <<>>
        t6 == IF truthy_num(r.budget) THEN <<budget_tip(r)>> ELSE <<>>
        tips == t1 \o t2 \o t3 \o t4 \o t5 \o t6
    IN  [reply |-> IF tips = <<>> THEN << <<"fallback_prompt">> >> ELSE tips]


(***************************************************************************)
(* The workers and the frame every specification starts from.              *)
(***************************************************************************)
NProcs == 2
Procs == 1..NProcs

NoFrame == [caller |-> "", region |-> "", categories |-> <<>>, limit_per_cat |-> 0,
            i |-> 1, recs |-> <<>>, checklist |-> <<>>, budget_items |-> <<>>]

WorkersIdle ==
    /\ pc = [p \in Procs |-> "idle"]
    /\ req = [p \in Procs |-> None]
    /\ pref_id = [p \in Procs |-> None]
    /\ rv = [p \in Procs |-> NoFrame]
    /\ resp = [p \in Procs |-> None]
    /\ oplog = [p \in Procs |-> <<>>]
    /\ hist = [served |-> 0, prefs0 |-> prefs, inserted |-> <<>>, seeded |-> 0]

NoPureCall == [fn |-> "none", arg |-> None]

(***************************************************************************)
(* SpecPure: one call of a pure helper on an argument drawn from the sets  *)
(* below.                                                                  *)
(***************************************************************************)
RegionArgs == Region \cup {"other"}

Messages == {"hello", "plan my wedding"}
AssistRegions == {None, Some("gcc"), Some("lebanon"), Some("egypt"), Some("other")}
AssistStyles == {None, Some(""), Some("boho")}
AssistGuests == {None, Some(0), Some(300), Some(301)}
AssistCurrencies == {None, Some("USD"), Some("AED"), Some("SAR"), Some("EGP"),
                     Some("LBP"), Some("aed"), Some("XYZ")}

\* the rate assist divides by, for an Optional currency
AssistRate(currency) == FX_RATES_get(IF currency = None THEN "USD" ELSE currency[1])

\* the least budget (in hundreds of the currency) worth usd dollars or more
BudgetWorth(usd, currency) ==
    LET q == RMul(<<usd, 100>>, AssistRate(currency))
    IN  (q[1] + q[2] - 1) \div q[2]

\* budgets of assist for a currency: absent, zero, small, and around both thresholds
AssistBudgets(currency) ==
    {None, Some(0), Some(1)} \cup
    {Some(BudgetWorth(t, currency) + d) : t \in {LimitedBelow, MediumBelow}, d \in {-1, 0}}

AssistArgs ==
    UNION {{AssistRequest(m, r, b, c, s, g) :
               m \in Messages, r \in AssistRegions, b \in AssistBudgets(c),
               s \in AssistStyles, g \in AssistGuests} : c \in AssistCurrencies}

PureCall(fn, arg) == [fn |-> fn, arg |-> arg]

InitPure ==
    /\ db = TRUE /\ vendors = <<>> /\ prefs = <<>> /\ inquiries = <<>> /\ next_oid = 1
    /\ WorkersIdle
    /\ \/ \E r \in RegionArgs : call = PureCall("regional_allocations", r)
       \/ \E g \in MinGuests..MaxGuests : call = PureCall("arabic_checklist", g)
       \/ \E t \in BudgetArgs, r \in RegionArgs, c \in Currency :
              call = PureCall("build_budget", <<t, r, c>>)
       \/ \E a \in AssistArgs : call = PureCall("assist", a)
    /\ ret = None

CallAllocations ==
    /\ call.fn = "regional_allocations" /\ ret = None
    /\ ret' = Some(regional_allocations(call.arg))
    /\ UNCHANGED <<storeVars, workerVars, call>>

CallChecklist ==
    /\ call.fn = "arabic_checklist" /\ ret = None
    /\ ret' = Some(arabic_checklist(call.arg))
    /\ UNCHANGED <<storeVars, workerVars, call>>

CallBuildBudget ==
    /\ call.fn = "build_budget" /\ ret = None
    /\ ret' = Some(build_budget(call.arg[1], call.arg[2], call.arg[3]))
    /\ UNCHANGED <<storeVars, workerVars, call>>

CallAssist ==
    /\ call.fn = "assist" /\ ret = None
    /\ ret' = Some(assist(call.arg))
    /\ UNCHANGED <<storeVars, workerVars, call>>

NextPure == CallAllocations \/ CallChecklist \/ CallBuildBudget \/ CallAssist

SpecPure == InitPure /\ [][NextPure]_vars


(***************************************************************************)
(* The document store behind database.db (pymongo).                        *)
(***************************************************************************)
ObjectId(n) == [oid |-> n]

\* str(ObjectId): the identifier's text, one text per identifier
str(o) == <<"ObjectId", o.oid>>

\* Collection.find(filter): the documents equal to the filter on each of its
\* fields, in storage order
find(coll, filter) ==
    LET matches(d) == \A k \in DOMAIN filter : k \in DOMAIN d /\ d[k] = filter[k]
    IN  SelectSeq(coll, matches)

\* Cursor.limit(n): 0 means no limit; otherwise at most |n| documents
limit(docs, n) ==
    LET m == IF n < 0 THEN 0 - n ELSE n
    IN  IF n = 0 THEN docs
        ELSE SubSeq(docs, 1, IF m < Len(docs) THEN m ELSE Len(docs))

\* database.create_document(collection_name, data): stores data's fields under
\* a new identifier; the collection afterwards
create_document(coll, oid, data) == Append(coll, [_id |-> ObjectId(oid)] @@ data)

\* the store calls a worker's oplog records
InsertOp(coll, ok) == [op |-> "insert", coll |-> coll, filter |-> None, ok |-> ok]
FindOp(coll, filter, ok) == [op |-> "find", coll |-> coll, filter |-> Some(filter), ok |-> ok]

\* ---------- recommend_vendors ----------
\* a dict in insertion order: d[k] = v
DictSet(d, k, v) ==
    IF \E j \in 1..Len(d) : d[j].key = k
    THEN [j \in 1..Len(d) |-> IF d[j].key = k THEN [key |-> k, value |-> v] ELSE d[j]]
    ELSE Append(d, [key |-> k, value |-> v])

DictKeys(d) == {d[j].key : j \in 1..Len(d)}
DictGet(d, k) == (CHOOSE j \in 1..Len(d) : d[j].key = k)
DictValue(d, k) == d[DictGet(d, k)].value

PrimaryFilter(region, cat) == [region |-> region, category |-> cat]
FallbackFilter(cat) == [category |-> cat]

\* a faulty variant: the primary lookup forgets the region
primary_docs_any_region(region, cat, limit_per_cat) ==
    IF db THEN limit(find(vendors, FallbackFilter(cat)), limit_per_cat) ELSE <<>>

\* line 262: the primary lookup's documents
primary_docs(region, cat, limit_per_cat) ==
    IF db THEN limit(find(vendors, PrimaryFilter(region, cat)), limit_per_cat) ELSE <<>>

\* line 264: the fallback lookup's documents
fallback_docs(cat, limit_per_cat) ==
    IF db THEN limit(find(vendors, FallbackFilter(cat)), limit_per_cat) ELSE <<>>

\* line 269: the price of avg whole dollars in every currency
price_converted(avg) == [c \in DOMAIN FX_RATES |-> convert(float(avg), c)]

\* price_converted of the prices the vendor documents below carry, computed
\* once
TabledPrices == {7, 12, 200}
PriceTable == [avg \in TabledPrices |-> price_converted(avg)]

\* lines 266-269 on one document
annotate(d) ==
    LET d1 == [d EXCEPT !._id = str(d._id)]
        avg == d.average_price_usd
    IN  IF avg = None THEN d1
        ELSE [price_converted |->
                 IF avg[1] \in TabledPrices THEN PriceTable[avg[1]]
                 ELSE price_converted(avg[1])] @@ d1

annotated(docs) == [j \in 1..Len(docs) |-> annotate(docs[j])]

RvCat(p) == rv[p].categories[rv[p].i]
RvAtCat(p) == pc[p] = "rv_loop" /\ rv[p].i <= Len(rv[p].categories)
RvLoopOver(p) == pc[p] = "rv_loop" /\ rv[p].i > Len(rv[p].categories)

\* line 270 and the loop's next turn
RvStore(p, docs) ==
    rv' = [rv EXCEPT ![p].recs = DictSet(@, RvCat(p), annotated(docs)), ![p].i = @ + 1]

Log(p, entry) == oplog' = [oplog EXCEPT ![p] = IF db THEN Append(@, entry) ELSE @]

\* a faulty variant: the fallback lookup is issued whatever the primary
\* lookup returned
RvPrimaryAlwaysFallsBack(p) ==
    /\ RvAtCat(p)
    /\ pc' = [pc EXCEPT ![p] = "rv_fallback"]
    /\ Log(p, FindOp("vendor", PrimaryFilter(rv[p].region, RvCat(p)), TRUE))
    /\ UNCHANGED <<storeVars, req, pref_id, rv, resp, hist, pureVars>>

RvPrimary(p) ==
    /\ RvAtCat(p)
    /\ LET docs == primary_docs(rv[p].region, RvCat(p), rv[p].limit_per_cat)
       IN  IF docs = <<>>
           THEN pc' = [pc EXCEPT ![p] = "rv_fallback"] /\ UNCHANGED rv
           ELSE RvStore(p, docs) /\ UNCHANGED pc
    /\ Log(p, FindOp("vendor", PrimaryFilter(rv[p].region, RvCat(p)), TRUE))
    /\ UNCHANGED <<storeVars, req, pref_id, resp, hist, pureVars>>

RvFallback(p) ==
    /\ pc[p] = "rv_fallback"
    /\ RvStore(p, fallback_docs(RvCat(p), rv[p].limit_per_cat))
    /\ pc' = [pc EXCEPT ![p] = "rv_loop"]
    /\ Log(p, FindOp("vendor", FallbackFilter(RvCat(p)), TRUE))
    /\ UNCHANGED <<storeVars, req, pref_id, resp, hist, pureVars>>

\* a store call raises: nothing catches it, the request ends without a body
Raise(p) == pc' = [pc EXCEPT ![p] = "failed"]

\* a faulty variant: the failed lookup is caught and taken for no match
RvPrimaryFailsCaught(p) ==
    /\ RvAtCat(p) /\ db
    /\ pc' = [pc EXCEPT ![p] = "rv_fallback"]
    /\ Log(p, FindOp("vendor", PrimaryFilter(rv[p].region, RvCat(p)), FALSE))
    /\ UNCHANGED <<storeVars, req, pref_id, rv, resp, hist, pureVars>>

RvPrimaryFails(p) ==
    /\ RvAtCat(p) /\ db
    /\ Raise(p)
    /\ Log(p, FindOp("vendor", PrimaryFilter(rv[p].region, RvCat(p)), FALSE))
    /\ UNCHANGED <<storeVars, req, pref_id, rv, resp, hist, pureVars>>

\* a faulty variant: the failed lookup takes the worker's preference back out
RvFallbackFailsRollsBack(p) ==
    /\ pc[p] = "rv_fallback" /\ db
    /\ Raise(p)
    /\ Log(p, FindOp("vendor", FallbackFilter(RvCat(p)), FALSE))
    /\ LET mine(d) == pref_id[p] = None \/ str(d._id) # pref_id[p][1]
       IN  prefs' = SelectSeq(prefs, mine)
    /\ UNCHANGED <<db, vendors, inquiries, next_oid, req, pref_id, rv, resp, hist, pureVars>>

RvFallbackFails(p) ==
    /\ pc[p] = "rv_fallback" /\ db
    /\ Raise(p)
    /\ Log(p, FindOp("vendor", FallbackFilter(RvCat(p)), FALSE))
    /\ UNCHANGED <<storeVars, req, pref_id, rv, resp, hist, pureVars>>

\* recommend_vendors called on its own returns recs
RecommendReturn(p) ==
    /\ RvLoopOver(p) /\ rv[p].caller = "direct"
    /\ resp' = [resp EXCEPT ![p] = Some(rv[p].recs)]
    /\ pc' = [pc EXCEPT ![p] = "done"]
    /\ UNCHANGED <<storeVars, req, pref_id, rv, oplog, hist, pureVars>>


(***************************************************************************)
(* SpecRecommend: one call recommend_vendors(region, categories, n) by     *)
(* worker 1 on a store drawn from the sets below; every lookup may raise.  *)
(***************************************************************************)
VendorDoc(oid, name, category, region, average_price_usd) ==
    [_id |-> ObjectId(oid), name |-> name, category |-> category, region |-> region,
     average_price_usd |-> average_price_usd]

\* vendor documents a store may hold (prices in whole USD)
VendorDocs == {
    VendorDoc(101, "venue-lebanon-a", "venue", "lebanon", Some(12)),
    VendorDoc(102, "venue-lebanon-b", "venue", "lebanon", None),
    VendorDoc(103, "venue-gcc", "venue", "gcc", Some(200)),
    VendorDoc(104, "florals-gcc", "florals", "gcc", Some(7)) }

MaxStore == 3
MaxCats == 2
MaxLimit == 2

RECURSIVE SeqsUpTo(_, _)
\* the sequences of at most n elements of S
SeqsUpTo(S, n) ==
    IF n = 0 THEN {<<>>}
    ELSE LET shorter == SeqsUpTo(S, n - 1)
         IN  shorter \cup {Append(q, x) : q \in shorter, x \in S}

NoRepeat(q) == \A j, k \in 1..Len(q) : j # k => q[j] # q[k]

VendorStores == {q \in SeqsUpTo(VendorDocs, MaxStore) : NoRepeat(q)}

CategoryArgs == SeqsUpTo({"venue", "florals", "zaffe"}, MaxCats)

DirectFrame(region, categories, n) ==
    [NoFrame EXCEPT !.caller = "direct", !.region = region,
                    !.categories = categories, !.limit_per_cat = n]

InitRecommend ==
    /\ db \in BOOLEAN
    /\ vendors \in VendorStores
    /\ prefs = <<>> /\ inquiries = <<>> /\ next_oid = 1
    /\ \E region \in Region, categories \in CategoryArgs, n \in 0..MaxLimit :
           rv = [p \in Procs |-> IF p = 1 THEN DirectFrame(region, categories, n)
                                 ELSE NoFrame]
    /\ pc = [p \in Procs |-> IF p = 1 THEN "rv_loop" ELSE "idle"]
    /\ req = [p \in Procs |-> None]
    /\ pref_id = [p \in Procs |-> None]
    /\ resp = [p \in Procs |-> None]
    /\ oplog = [p \in Procs |-> <<>>]
    /\ hist = [served |-> 0, prefs0 |-> prefs, inserted |-> <<>>, seeded |-> 0]
    /\ call = NoPureCall /\ ret = None

NextRecommend ==
    \E p \in Procs :
        \/ RvPrimary(p)
        \/ RvPrimaryFails(p)
        \/ RvFallback(p)
        \/ RvFallbackFails(p)
        \/ RecommendReturn(p)

SpecRecommend == InitRecommend /\ [][NextRecommend]_vars


(***************************************************************************)
(* The handlers that write the preference collection.  A handler runs as   *)
(* one worker; its steps are its store calls, and the work between two     *)
(* store calls belongs to the step of the call before it.                  *)
(***************************************************************************)
UserPreference(full_name, region, guest_count, budget, currency) ==
    [full_name |-> full_name, region |-> region, guest_count |-> guest_count,
     budget |-> budget, currency |-> currency]

key_cats == <<"venue", "photography", "florals", "zaffe", "dj">>
DefaultLimit == 3
MaxRequests == 2

Request(handler, body) == Some([handler |-> handler, body |-> body])

PlanFrame(r, items) ==
    [caller |-> "generate_plan", region |-> r.region, categories |-> key_cats,
     limit_per_cat |-> DefaultLimit, i |-> 1, recs |-> <<>>,
     checklist |-> arabic_checklist(r.guest_count), budget_items |-> items]

Accept(p, handler, r) ==
    /\ pc[p] = "idle"
    /\ hist.served < MaxRequests
    /\ req' = [req EXCEPT ![p] = Request(handler, r)]

\* create_document("userpreference", r) succeeds for worker p
Inserted(p, r) ==
    /\ db
    /\ prefs' = create_document(prefs, next_oid, r)
    /\ next_oid' = next_oid + 1
    /\ pref_id' = [pref_id EXCEPT ![p] = Some(str(ObjectId(next_oid)))]
    /\ oplog' = [oplog EXCEPT ![p] = <<InsertOp("userpreference", TRUE)>>]
    /\ hist' = [hist EXCEPT !.served = @ + 1, !.inserted = Append(@, r)]

\* create_document("userpreference", r) raises for worker p
InsertRaised(p) ==
    /\ Raise(p)
    /\ oplog' = [oplog EXCEPT ![p] = IF db THEN <<InsertOp("userpreference", FALSE)>> ELSE <<>>]
    /\ hist' = [hist EXCEPT !.served = @ + 1]
    /\ UNCHANGED <<storeVars, pref_id>>

\* generate_plan, lines 276-279: the insert, then checklist and budget
PlanInsert(p, r) ==
    /\ Accept(p, "generate_plan", r)
    /\ Inserted(p, r)
    /\ rv' = [rv EXCEPT ![p] = PlanFrame(r, build_budget(r.budget, r.region, r.currency))]
    /\ pc' = [pc EXCEPT ![p] = "rv_loop"]
    /\ UNCHANGED <<db, vendors, inquiries, resp, pureVars>>

PlanInsertFails(p, r) ==
    /\ Accept(p, "generate_plan", r)
    /\ InsertRaised(p)
    /\ UNCHANGED <<rv, resp, pureVars>>

\* generate_plan, lines 282-303: the response
PlanRespond(p) ==
    /\ RvLoopOver(p) /\ rv[p].caller = "generate_plan"
    /\ LET r == req[p][1].body
       IN  resp' = [resp EXCEPT ![p] = Some(
                   [plan |-> [preference_id |-> pref_id[p][1],
                              region |-> r.region,
                              currency |-> r.currency,
                              guest_count |-> r.guest_count,
                              total_budget |-> IF r.budget \in TabledTotals
                                              THEN RoundedTotal[r.budget]
                                              ELSE round(r.budget, 2),
                              timeline |-> rv[p].checklist,
                              categories |-> key_cats,
                              fx |-> [base |-> "USD", rates |-> FX_RATES]],
                    budget |-> rv[p].budget_items,
                    vendors |-> rv[p].recs,
                    message |-> "Plan generated with regional allocations and multi-currency support"])]
    /\ pc' = [pc EXCEPT ![p] = "done"]
    /\ UNCHANGED <<storeVars, req, pref_id, rv, oplog, hist, pureVars>>

\* a faulty variant: the preference overwrites the newest stored one
CreateInsertUpserts(p, r) ==
    /\ Accept(p, "create_preferences", r)
    /\ db
    /\ prefs' = IF prefs = <<>> THEN create_document(prefs, next_oid, r)
                ELSE [prefs EXCEPT ![Len(prefs)] = [_id |-> ObjectId(next_oid)] @@ r]
    /\ next_oid' = next_oid + 1
    /\ pref_id' = [pref_id EXCEPT ![p] = Some(str(ObjectId(next_oid)))]
    /\ oplog' = [oplog EXCEPT ![p] = <<InsertOp("userpreference", TRUE)>>]
    /\ hist' = [hist EXCEPT !.served = @ + 1, !.inserted = Append(@, r)]
    /\ resp' = [resp EXCEPT ![p] = Some([id |-> str(ObjectId(next_oid))])]
    /\ pc' = [pc EXCEPT ![p] = "done"]
    /\ UNCHANGED <<db, vendors, inquiries, rv, pureVars>>

\* create_preferences, lines 207-208
CreateInsert(p, r) ==
    /\ Accept(p, "create_preferences", r)
    /\ Inserted(p, r)
    /\ resp' = [resp EXCEPT ![p] = Some([id |-> str(ObjectId(next_oid))])]
    /\ pc' = [pc EXCEPT ![p] = "done"]
    /\ UNCHANGED <<db, vendors, inquiries, rv, pureVars>>

CreateInsertFails(p, r) ==
    /\ Accept(p, "create_preferences", r)
    /\ InsertRaised(p)
    /\ UNCHANGED <<rv, resp, pureVars>>

\* schemas.py, Inquiry
Inquiry(name, email, phone, vendor_id, message, region) ==
    [name |-> name, email |-> email, phone |-> phone, vendor_id |-> vendor_id,
     message |-> message, region |-> region]

\* create_inquiry, lines 309-310: create_document("inquiry", inq) succeeds
InquiryInsert(p, inq) ==
    /\ Accept(p, "create_inquiry", inq)
    /\ db
    /\ inquiries' = create_document(inquiries, next_oid, inq)
    /\ next_oid' = next_oid + 1
    /\ oplog' = [oplog EXCEPT ![p] = <<InsertOp("inquiry", TRUE)>>]
    /\ hist' = [hist EXCEPT !.served = @ + 1]
    /\ resp' = [resp EXCEPT ![p] = Some([id |-> str(ObjectId(next_oid))])]
    /\ pc' = [pc EXCEPT ![p] = "done"]
    /\ UNCHANGED <<db, vendors, prefs, pref_id, rv, pureVars>>

\* create_inquiry, line 309: create_document("inquiry", inq) raises
InquiryInsertFails(p, inq) ==
    /\ Accept(p, "create_inquiry", inq)
    /\ Raise(p)
    /\ oplog' = [oplog EXCEPT ![p] = IF db THEN <<InsertOp("inquiry", FALSE)>> ELSE <<>>]
    /\ hist' = [hist EXCEPT !.served = @ + 1]
    /\ UNCHANGED <<storeVars, pref_id, rv, resp, pureVars>>

\* the worker is handed back to the pool
Finish(p) ==
    /\ pc[p] \in {"done", "failed"}
    /\ hist.served < MaxRequests
    /\ pc' = [pc EXCEPT ![p] = "idle"]
    /\ req' = [req EXCEPT ![p] = None]
    /\ pref_id' = [pref_id EXCEPT ![p] = None]
    /\ rv' = [rv EXCEPT ![p] = NoFrame]
    /\ resp' = [resp EXCEPT ![p] = None]
    /\ oplog' = [oplog EXCEPT ![p] = <<>>]
    /\ UNCHANGED <<storeVars, hist, pureVars>>

(***************************************************************************)
(* seed_vendors: per sample a find_one by name and region, and an          *)
(* insert_one when it found nothing; then a count of the collection.       *)
(***************************************************************************)
Sample(name, category, region, average_price_usd) ==
    [name |-> name, category |-> category, region |-> region,
     average_price_usd |-> Some(average_price_usd)]

\* lines 111-130, each sample by the fields the model's vendors carry
samples == <<
    Sample("Phoenicia Beirut", "venue", "lebanon", 50000),
    Sample("Byblos Sur Mer", "venue", "lebanon", 25000),
    Sample("Sursock Palace Gardens", "venue", "lebanon", 70000),
    Sample("Burj Al Arab Events", "venue", "gcc", 150000),
    Sample("Qasr Al Sarab Desert Resort", "venue", "gcc", 120000),
    Sample("Four Seasons Cairo", "venue", "egypt", 40000),
    Sample("Royal Maxim Palace Kempinski", "venue", "egypt", 35000),
    Sample("Maison de Fleurs", "florals", "lebanon", 8000),
    Sample("Bloom & Co.", "florals", "gcc", 12000),
    Sample("Zaffe Arabia", "zaffe", "gcc", 3000),
    Sample("Beirut Zaffe Masters", "zaffe", "lebanon", 2500),
    Sample("Nile Moments Photography", "photography", "egypt", 3500),
    Sample("LensCrafters Dubai Weddings", "photography", "gcc", 7000),
    Sample("DJ Farah", "dj", "lebanon", 2000),
    Sample("DJ Khaled Events", "dj", "gcc", 6000),
    Sample("Cairo Strings Band", "band", "egypt", 4000),
    Sample("Glam by Rania", "makeup", "gcc", 1800),
    Sample("Lina Beauty Studio", "makeup", "lebanon", 1200) >>

\* Collection.find_one(filter): the first matching document, or None
find_one(coll, filter) ==
    LET found == find(coll, filter)
    IN  IF found = <<>> THEN None ELSE Some(found[1])

\* Collection.insert_one(doc): the collection afterwards
insert_one(coll, oid, doc) == Append(coll, [_id |-> ObjectId(oid)] @@ doc)

\* Collection.count_documents({})
count_documents(coll) == Len(coll)

CountOp(coll, ok) == [op |-> "count", coll |-> coll, filter |-> None, ok |-> ok]

SeedKey(s) == [name |-> s.name, region |-> s.region]

\* lines 110-132: samples, created = 0; after records whether a seed_vendors
\* call had returned before this one began
SeedFrame == [caller |-> "seed_vendors", i |-> 1, created |-> 0, after |-> hist.seeded > 0]

SeedSample(p) == samples[rv[p].i]
SeedAtSample(p) == pc[p] = "seed_find" /\ rv[p].i <= Len(samples)

SeedStart(p) ==
    /\ Accept(p, "seed_vendors", None)
    /\ rv' = [rv EXCEPT ![p] = SeedFrame]
    /\ pc' = [pc EXCEPT ![p] = "seed_find"]
    /\ hist' = [hist EXCEPT !.served = @ + 1]
    /\ UNCHANGED <<storeVars, pref_id, resp, oplog, pureVars>>

\* line 134, and line 135 when the sample exists
SeedFind(p) ==
    /\ SeedAtSample(p) /\ db
    /\ IF find_one(vendors, SeedKey(SeedSample(p))) = None
       THEN pc' = [pc EXCEPT ![p] = "seed_insert"] /\ UNCHANGED rv
       ELSE rv' = [rv EXCEPT ![p].i = @ + 1] /\ UNCHANGED pc
    /\ Log(p, FindOp("vendor", SeedKey(SeedSample(p)), TRUE))
    /\ UNCHANGED <<storeVars, req, pref_id, resp, hist, pureVars>>

\* lines 136-137
SeedInsert(p) ==
    /\ pc[p] = "seed_insert" /\ db
    /\ vendors' = insert_one(vendors, next_oid, SeedSample(p))
    /\ next_oid' = next_oid + 1
    /\ rv' = [rv EXCEPT ![p].i = @ + 1, ![p].created = @ + 1]
    /\ pc' = [pc EXCEPT ![p] = "seed_find"]
    /\ Log(p, InsertOp("vendor", TRUE))
    /\ UNCHANGED <<db, prefs, inquiries, req, pref_id, resp, hist, pureVars>>

\* line 139
SeedReturn(p) ==
    /\ pc[p] = "seed_find" /\ rv[p].i > Len(samples) /\ db
    /\ resp' = [resp EXCEPT ![p] = Some([seeded |-> rv[p].created,
                                         total_vendors |-> count_documents(vendors)])]
    /\ pc' = [pc EXCEPT ![p] = "done"]
    /\ Log(p, CountOp("vendor", TRUE))
    /\ hist' = [hist EXCEPT !.seeded = @ + 1]
    /\ UNCHANGED <<storeVars, req, pref_id, rv, pureVars>>

\* the store call the worker is at raises (with no database, db["vendor"]
\* itself does)
SeedRaises(p) ==
    /\ pc[p] \in {"seed_find", "seed_insert"}
    /\ Raise(p)
    /\ Log(p, IF pc[p] = "seed_insert" THEN InsertOp("vendor", FALSE)
              ELSE IF SeedAtSample(p)
                   THEN FindOp("vendor", SeedKey(SeedSample(p)), FALSE)
                   ELSE CountOp("vendor", FALSE))
    /\ UNCHANGED <<storeVars, req, pref_id, rv, resp, hist, pureVars>>


(***************************************************************************)
(* SpecSeed: NProcs workers serve up to MaxRequests seed_vendors requests  *)
(* concurrently, their steps interleaved freely, on a collection an        *)
(* earlier seeding left short of the last samples (at most MaxMissing of   *)
(* them: a call that a store failure ended early).                         *)
(***************************************************************************)
\* the collection once the first k samples have been seeded
Seeded(k) == [j \in 1..k |-> [_id |-> ObjectId(j)] @@ samples[j]]

MaxMissing == 7
SeedStores == {Seeded(k) : k \in (Len(samples) - MaxMissing)..Len(samples)}

InitSeed ==
    /\ db \in BOOLEAN
    /\ vendors \in SeedStores
    /\ prefs = <<>>
    /\ inquiries = <<>>
    /\ next_oid = Len(vendors) + 1
    /\ WorkersIdle
    /\ call = NoPureCall /\ ret = None

NextSeed ==
    \E p \in Procs :
        \/ SeedStart(p)
        \/ SeedFind(p)
        \/ SeedInsert(p)
        \/ SeedReturn(p)
        \/ SeedRaises(p)
        \/ Finish(p)

SpecSeed == InitSeed /\ [][NextSeed]_vars


(***************************************************************************)
(* SpecSeedAlone: worker 1 serves seed_vendors requests one at a time, on  *)
(* a collection seeded up to any sample, the empty one included.           *)
(***************************************************************************)
InitSeedAlone ==
    /\ db \in BOOLEAN
    /\ vendors \in {Seeded(k) : k \in 0..Len(samples)}
    /\ prefs = <<>>
    /\ inquiries = <<>>
    /\ next_oid = Len(vendors) + 1
    /\ WorkersIdle
    /\ call = NoPureCall /\ ret = None

NextSeedAlone ==
    \E p \in {1} :
        \/ SeedStart(p)
        \/ SeedFind(p)
        \/ SeedInsert(p)
        \/ SeedReturn(p)
        \/ SeedRaises(p)
        \/ Finish(p)

SpecSeedAlone == InitSeedAlone /\ [][NextSeedAlone]_vars


(***************************************************************************)
(* Spec: NProcs workers serve up to MaxRequests requests concurrently.     *)
(***************************************************************************)
\* two couples, one planning in Lebanon and one in Egypt
ConcRequests ==
    {UserPreference("Layla & Karim", "lebanon", 301, Money(5000000), "USD"),
     UserPreference("Nour & Omar", "egypt", 301, Money(5000000), "USD")}

\* a store with one Lebanese venue: a Lebanese plan finds its venue in the
\* region and every other category, and every Egyptian one, by the fallback
ConcStore == <<VendorDoc(101, "venue-lebanon-a", "venue", "lebanon", Some(12))>>
ConcStores == {<<>>, ConcStore}

\* an inquiry about a venue
ConcInquiries ==
    {Inquiry("Maya", "m@x.org", None, None, "Is the hall free in June?", None)}

\* a preference stored before the model starts
OldPref == [_id |-> ObjectId(1)] @@ UserPreference("Rima & Sami", "gcc", 120, Money(9000000), "AED")

Init ==
    /\ db \in BOOLEAN
    /\ vendors = ConcStore
    /\ prefs = <<OldPref>>
    /\ inquiries = <<>>
    /\ next_oid = Len(prefs) + 1
    /\ WorkersIdle
    /\ call = NoPureCall /\ ret = None

Next ==
    \E p \in Procs :
        \/ \E r \in ConcRequests : PlanInsert(p, r)
        \/ \E r \in ConcRequests : PlanInsertFails(p, r)
        \/ \E r \in ConcRequests : CreateInsert(p, r)
        \/ \E r \in ConcRequests : CreateInsertFails(p, r)
        \/ \E inq \in ConcInquiries : InquiryInsert(p, inq)
        \/ \E inq \in ConcInquiries : InquiryInsertFails(p, inq)
        \/ RvPrimary(p)
        \/ RvPrimaryFails(p)
        \/ RvFallback(p)
        \/ RvFallbackFails(p)
        \/ PlanRespond(p)
        \/ Finish(p)

Spec == Init /\ [][Next]_vars


(***************************************************************************)
(* SpecPlan: worker 1 serves generate_plan requests one at a time, over a  *)
(* wider set of preferences.                                               *)
(***************************************************************************)
PlanGuests == {MinGuests, 300, 301, MaxGuests}

PlanRequests ==
    {UserPreference("Layla & Karim", r, g, b, c) :
        r \in Region, g \in PlanGuests, b \in PlanBudgets, c \in Currency}

InitPlan ==
    /\ db \in BOOLEAN
    /\ vendors \in ConcStores
    /\ prefs = <<>>
    /\ inquiries = <<>>
    /\ next_oid = 1
    /\ WorkersIdle
    /\ call = NoPureCall /\ ret = None

NextPlan ==
    \E p \in {1} :
        \/ \E r \in PlanRequests : PlanInsert(p, r)
        \/ \E r \in PlanRequests : PlanInsertFails(p, r)
        \/ RvPrimary(p)
        \/ RvPrimaryFails(p)
        \/ RvFallback(p)
        \/ RvFallbackFails(p)
        \/ PlanRespond(p)

SpecPlan == InitPlan /\ [][NextPlan]_vars


(***************************************************************************)
(*                         The claims                                      *)
(***************************************************************************)
Returned(fn) == call.fn = fn /\ ret # None

Pcts(alloc) == [j \in 1..Len(alloc) |-> alloc[j].pct]

\* C1: for every region argument, recognised or not, the percentages that
\* regional_allocations returns sum to exactly 100.
C1_AllocationsSumTo100 ==
    Returned("regional_allocations") => SumSeq(Pcts(ret[1])) = 100

\* C2: for every guest_count in 1..2000 arabic_checklist returns 8 items up
\* to 300 guests and 9 items above; its first 8 items are the same, in the
\* same order, for every guest_count, and the valet item, when present, is
\* the last one.
C2_ChecklistShape ==
    Returned("arabic_checklist") =>
        LET g == call.arg
            items == ret[1]
        IN  /\ g <= 300 => Len(items) = 8
            /\ g > 300 => Len(items) = 9 /\ items[9] = ValetItem
            /\ \A h \in MinGuests..MaxGuests :
                   SubSeq(items, 1, 8) = SubSeq(arabic_checklist(h), 1, 8)
            /\ \A j \in 1..8 : items[j] # ValetItem

C2_Witness ==
    /\ Returned("arabic_checklist")
    /\ call.arg = 301
    /\ Len(ret[1]) = 9

BudgetTips == {<<"budget_limited">>, <<"budget_medium">>, <<"budget_high">>}

\* the tip the USD-equivalent budget / rate selects by first match (budget in
\* hundreds of the currency, as in AssistRequest)
TipFor(budget, currency) ==
    LET rate == AssistRate(currency)
    IN  IF budget * rate[2] < (LimitedBelow \div 100) * rate[1] THEN <<"budget_limited">>
        ELSE IF budget * rate[2] < (MediumBelow \div 100) * rate[1] THEN <<"budget_medium">>
        ELSE <<"budget_high">>

TipsIn(reply, tips) == {j \in 1..Len(reply) : reply[j] \in tips}

\* C7: whenever the budget of an assist request is present, zero included,
\* the reply holds exactly one budget tip, the one its USD-equivalent
\* selects; a request without budget gets no budget tip.
C7_BudgetTipWheneverPresent ==
    Returned("assist") =>
        LET r == call.arg
            got == TipsIn(ret[1].reply, BudgetTips)
        IN  IF r.budget = None THEN got = {}
            ELSE /\ Cardinality(got) = 1
                 /\ \A j \in got : ret[1].reply[j] = TipFor(r.budget[1], r.currency)

\* C8: the reply of assist is the same for every message, the other fields
\* being equal; with no optional field given it is the fallback prompt.
C8_MessageIgnored ==
    Returned("assist") =>
        LET r == call.arg
        IN  /\ \A m \in Messages : assist([r EXCEPT !.message = m]) = ret[1]
            /\ (r.region = None /\ r.budget = None /\ r.style = None
                   /\ r.guest_count = None)
               => ret[1].reply = << <<"fallback_prompt">> >>

C8_Witness ==
    /\ Returned("assist")
    /\ call.arg.message = "plan my wedding"
    /\ call.arg.region = None /\ call.arg.budget = None
    /\ call.arg.style = None /\ call.arg.guest_count = None
    /\ call.arg.currency = Some("USD")
    /\ ret[1].reply = << <<"fallback_prompt">> >>


SeqSet(q) == {q[j] : j \in 1..Len(q)}

RecommendDone(p) == pc[p] = "done" /\ rv[p].caller = "direct" /\ resp[p] # None

\* C3: the mapping recommend_vendors returns has a key for every requested
\* category, every list in it has at most limit_per_cat vendors, and a
\* category no vendor of the store has, in any region, maps to the empty list.
C3_KeysAndLimit ==
    \A p \in Procs : RecommendDone(p) =>
        LET recs == resp[p][1]
        IN  /\ DictKeys(recs) = SeqSet(rv[p].categories)
            /\ \A k \in DictKeys(recs) :
                   /\ Len(DictValue(recs, k)) <= rv[p].limit_per_cat
                   /\ find(vendors, FallbackFilter(k)) = <<>> => DictValue(recs, k) = <<>>

\* C4: per requested category, when the store holds a vendor of the region
\* and the category every returned vendor has that region and category;
\* a vendor of another region is returned only when the store holds none of
\* the region and category; every returned vendor has the category.
C4_RegionFirst ==
    \A p \in Procs : RecommendDone(p) =>
        LET recs == resp[p][1]
            region == rv[p].region
        IN  \A k \in DictKeys(recs) :
                LET docs == DictValue(recs, k)
                    held == find(vendors, PrimaryFilter(region, k))
                IN  /\ held # <<>> =>
                           \A j \in 1..Len(docs) :
                               docs[j].region = region /\ docs[j].category = k
                    /\ (\E j \in 1..Len(docs) : docs[j].region # region) => held = <<>>
                    /\ \A j \in 1..Len(docs) : docs[j].category = k

C4_Witness ==
    \E p \in Procs :
        /\ RecommendDone(p)
        /\ Len(rv[p].categories) = 2
        /\ \E k \in DictKeys(resp[p][1]) :
               \E j \in 1..Len(DictValue(resp[p][1], k)) :
                   DictValue(resp[p][1], k)[j].region # rv[p].region
        /\ \E k \in DictKeys(resp[p][1]) :
               /\ DictValue(resp[p][1], k) # <<>>
               /\ find(vendors, PrimaryFilter(rv[p].region, k)) # <<>>

Handles(p, handler) == req[p] # None /\ req[p][1].handler = handler

FailedCalls(p) == {j \in 1..Len(oplog[p]) : ~oplog[p][j].ok}

\* C5: a generate_plan request one of whose store calls failed ends in
\* failure, at that call, and returns no body; a body is returned only
\* after the insert and every lookup succeeded.
C5_AllOrNothing ==
    \A p \in Procs : Handles(p, "generate_plan") =>
        /\ FailedCalls(p) # {} =>
               /\ pc[p] = "failed"
               /\ resp[p] = None
               /\ FailedCalls(p) = {Len(oplog[p])}
        /\ pc[p] = "failed" => resp[p] = None
        /\ resp[p] # None =>
               /\ pc[p] = "done"
               /\ FailedCalls(p) = {}
               /\ Len(oplog[p]) >= 1 + Len(key_cats)
               /\ DOMAIN resp[p][1] = {"plan", "budget", "vendors", "message"}

C5_Witness ==
    \E p \in Procs :
        /\ Handles(p, "generate_plan")
        /\ pc[p] = "failed" /\ resp[p] = None
        /\ Len(oplog[p]) >= 4
        /\ oplog[p][1].ok
        /\ oplog[p][Len(oplog[p])].filter = Some(FallbackFilter("photography"))
        /\ ~oplog[p][Len(oplog[p])].ok

\* the region's allocation table, its categories in order
TableCategories(region) ==
    [j \in 1..Len(regional_allocations(region)) |-> regional_allocations(region)[j].category]

\* the whole cents nearest to a float amount
Cents(x) == Scaled(x, 2)

\* x is the float of an amount written with two decimals
IsCents(x) == round(x, 2) = x

RECURSIVE BSum(_)
BSum(q) == IF q = <<>> THEN <<>> ELSE BAdd(Head(q), BSum(Tail(q)))

\* a budget in cents, as the fraction n / 2^s: the cents it is written with
\* when it is an amount of two decimals, its binary value otherwise
BudgetCents(total) ==
    IF IsCents(total) THEN [n |-> Cents(total), s |-> 0]
    ELSE [n |-> BMulS(total.m, 100), s |-> 0 - total.e]

\* k cents lie within `halves` half-cents of pct percent of the budget c
WithinHalfCents(k, c, pct, halves) ==
    BCmp(BMulS(BDist(BShl(BMulS(k, 100), c.s), BMulS(c.n, pct)), 2),
         BShl(BInt(100 * halves), c.s)) <= 0

\* worker p has answered a generate_plan request for lebanon in USD
LebanonUsdPlan(p) ==
    /\ Handles(p, "generate_plan") /\ resp[p] # None
    /\ req[p][1].body.region = "lebanon" /\ req[p][1].body.currency = "USD"

\* what C6 says of the response of worker p
LebanonUsdShape(p) ==
    LET items == resp[p][1].budget
        c == BudgetCents(req[p][1].body.budget)
        cents == [j \in 1..Len(items) |-> Cents(items[j].amount)]
    IN  /\ Len(items) = 10
        /\ [j \in 1..Len(items) |-> items[j].category] = TableCategories("lebanon")
        /\ SumSeq([j \in 1..Len(items) |-> items[j].allocation_percent]) = 100
        /\ \A j \in 1..Len(items) :
               /\ IsCents(items[j].amount)
               /\ WithinHalfCents(cents[j], c, items[j].allocation_percent, 1)
        /\ WithinHalfCents(BSum(cents), c, 100, Len(items))
        /\ DictKeys(resp[p][1].vendors) = {"venue", "photography", "florals", "zaffe", "dj"}

\* C6 as stated: for a preference with region lebanon and currency USD, for
\* any budget and any guest_count, the response of generate_plan has a
\* budget list of 10 items, one per category of the allocation table, whose
\* percentages sum to 100, each amount within half a cent of its share of
\* the budget and the amounts within 10 half-cents of the budget, and a
\* vendor map with exactly the keys venue, photography, florals, zaffe, dj.
C6_LebanonUsdPlan ==
    \A p \in Procs : LebanonUsdPlan(p) => LebanonUsdShape(p)

\* the largest budget the amended C6 covers, in cents (10^11 units)
WholeCentsUpTo == BPow10(13)

\* C6, amended: the same for any budget that is a whole number of cents and
\* at most 10^11, and any guest_count.
C6_LebanonUsdPlanWholeCents ==
    \A p \in Procs :
        (/\ LebanonUsdPlan(p)
         /\ IsCents(req[p][1].body.budget)
         /\ BCmp(Cents(req[p][1].body.budget), WholeCentsUpTo) <= 0) =>
        LebanonUsdShape(p)

\* a plan for a budget of 0.25: the second share, 5.5 cents, came out as
\* 0.06 and the amounts sum to 0.26
C6_Witness ==
    \E p \in Procs :
        /\ LebanonUsdPlan(p)
        /\ req[p][1].body.budget = Money(25)
        /\ Cents(resp[p][1].budget[2].amount) = BInt(6)
        /\ BSum([j \in 1..10 |-> Cents(resp[p][1].budget[j].amount)]) = BInt(26)


\* a stored record without its identifier
Payload(d) == [k \in DOMAIN d \ {"_id"} |-> d[k]]

OkInserts(p) == {j \in 1..Len(oplog[p]) : oplog[p][j].op = "insert" /\ oplog[p][j].ok}

\* the worker's preference is stored under the identifier it was given
OwnRecordStored(p) ==
    /\ pref_id[p] # None
    /\ \E j \in 1..Len(prefs) :
           str(prefs[j]._id) = pref_id[p][1] /\ Payload(prefs[j]) = req[p][1].body

C9_State ==
    \A p \in Procs : Handles(p, "generate_plan") =>
        /\ \A j \in 1..Len(oplog[p]) : (oplog[p][j].op = "insert") <=> (j = 1)
        /\ \A j \in 1..Len(oplog[p]) : oplog[p][j].op = "find" => oplog[p][1].ok
        /\ (pc[p] = "failed" /\ OkInserts(p) = {}) => Len(oplog[p]) <= 1
        /\ OkInserts(p) # {} => OwnRecordStored(p)

C9_Step ==
    \A p \in Procs : (pc[p] # "failed" /\ pc'[p] = "failed") => prefs' = prefs

\* C9: in a generate_plan request the insert is the first store call and is
\* never taken back: a failed insert is followed by no lookup and leaves the
\* preference collection as it was; a lookup that fails after the insert
\* fails the request and leaves the inserted record in the collection.
C9_InsertFirstNoRollback == [](C9_State) /\ [][C9_Step]_vars

C9_Witness ==
    \E p \in Procs :
        /\ Handles(p, "generate_plan")
        /\ pc[p] = "failed"
        /\ Len(oplog[p]) >= 3
        /\ oplog[p][1] = InsertOp("userpreference", TRUE)
        /\ oplog[p][Len(oplog[p])].op = "find" /\ ~oplog[p][Len(oplog[p])].ok
        /\ OwnRecordStored(p)

C10_State ==
    LET n0 == Len(hist.prefs0)
    IN  /\ Len(prefs) = n0 + Len(hist.inserted)
        /\ SubSeq(prefs, 1, n0) = hist.prefs0
        /\ \A k \in 1..Len(hist.inserted) : Payload(prefs[n0 + k]) = hist.inserted[k]
        /\ \A j, k \in 1..Len(prefs) : j # k => prefs[j]._id # prefs[k]._id
        /\ \A p \in Procs :
               /\ Cardinality(OkInserts(p)) <= 1
               /\ (OkInserts(p) # {} /\ ~Handles(p, "create_inquiry")) => OwnRecordStored(p)

C10_Step ==
    /\ Len(prefs') \in {Len(prefs), Len(prefs) + 1}
    /\ SubSeq(prefs', 1, Len(prefs)) = prefs

\* C10: under every interleaving of generate_plan and create_preferences
\* requests, create_inquiry requests running among them, the preference
\* collection only grows at its end: no step
\* changes or removes a stored record, a step adds at most one, a request
\* inserts at most once, and the records added are, in order, the payloads
\* of the requests whose insert succeeded, one each.
C10_AppendOnly == [](C10_State) /\ [][C10_Step]_vars

C10_Witness ==
    /\ hist.prefs0 # <<>>
    /\ Len(prefs) = 3
    /\ \E p, q \in Procs :
           /\ Handles(p, "generate_plan") /\ OkInserts(p) # {}
           /\ Handles(q, "create_preferences") /\ OkInserts(q) # {}
           /\ pc[p] = "rv_fallback"
           /\ req[p][1].body # req[q][1].body

\* the records of the collection that carry the sample's name and region
SeedCopies(s) ==
    Cardinality({j \in 1..Len(vendors) :
                    vendors[j].name = s.name /\ vendors[j].region = s.region})

SeedCall(p) == Handles(p, "seed_vendors") /\ rv[p].caller = "seed_vendors"

\* a seed_vendors call that began after another one had returned inserts
\* nothing and, when it returns, reports seeded = 0
C11_LaterCallSeedsNothing ==
    \A p \in Procs : (SeedCall(p) /\ rv[p].after) =>
        /\ OkInserts(p) = {}
        /\ (pc[p] = "done" => resp[p][1].seeded = 0)

\* C11: seeding is idempotent, interleaved calls included: once a
\* seed_vendors call has returned the collection holds exactly one record
\* for each sample (name, region) pair, and a call that began after another
\* call returned inserts nothing and reports seeded = 0.
C11_SeedIdempotent ==
    /\ hist.seeded > 0 =>
           \A k \in 1..Len(samples) : SeedCopies(samples[k]) = 1
    /\ C11_LaterCallSeedsNothing

RECURSIVE ExpectedReads(_, _)
\* the reads the claim gives a call: per category in list order the primary
\* lookup, and the fallback lookup when the store holds no vendor of the
\* region and the category
ExpectedReads(region, categories) ==
    IF categories = <<>> THEN <<>>
    ELSE LET cat == Head(categories)
             primary == <<FindOp("vendor", PrimaryFilter(region, cat), TRUE)>>
             fallback == IF find(vendors, PrimaryFilter(region, cat)) = <<>>
                         THEN <<FindOp("vendor", FallbackFilter(cat), TRUE)>>
                         ELSE <<>>
         IN  primary \o fallback \o ExpectedReads(region, Tail(categories))

IsPrefix(a, b) == Len(a) <= Len(b) /\ SubSeq(b, 1, Len(a)) = a

\* the store calls of worker p's recommend_vendors call are the reads in
\* expected, as far as the call has come
ReadsFollow(p, expected) ==
    LET log == oplog[p]
        n == Len(log)
    IN  /\ pc[p] = "done" => log = expected
        /\ pc[p] \in {"rv_loop", "rv_fallback"} => IsPrefix(log, expected)
        /\ pc[p] = "failed" =>
               /\ n >= 1 /\ n <= Len(expected)
               /\ SubSeq(log, 1, n - 1) = SubSeq(expected, 1, n - 1)
               /\ log[n] = [expected[n] EXCEPT !.ok = FALSE]
        /\ n <= 2 * Len(rv[p].categories)
        /\ \A j \in 1..n : log[j].op = "find" /\ log[j].coll = "vendor"

C12_ReadsAsStated ==
    \A p \in Procs : rv[p].caller = "direct" =>
        ReadsFollow(p, ExpectedReads(rv[p].region, rv[p].categories))

\* C12 as stated: a recommend_vendors call issues, per category in list
\* order, exactly one primary lookup and a fallback lookup if and only if the
\* primary lookup returned no vendor: at most 2 x (number of categories)
\* reads, no write, and the collections are left as they were.
C12_LookupsPerCategory ==
    [](C12_ReadsAsStated) /\ [][vendors' = vendors /\ prefs' = prefs]_vars

C12_State ==
    \A p \in Procs : rv[p].caller = "direct" =>
        /\ ReadsFollow(p, IF db THEN ExpectedReads(rv[p].region, rv[p].categories)
                          ELSE <<>>)
        /\ (~db /\ RecommendDone(p)) =>
               /\ DictKeys(resp[p][1]) = {rv[p].categories[j] : j \in 1..Len(rv[p].categories)}
               /\ \A j \in 1..Len(rv[p].categories) :
                      DictValue(resp[p][1], rv[p].categories[j]) = <<>>

\* C12, amended: with a database configured, a recommend_vendors call
\* issues, per category in list order, exactly one primary lookup and a
\* fallback lookup if and only if the primary lookup returned no vendor;
\* with none configured it issues no store call at all and maps every
\* category to the empty list.  Either way it
\* issues at most 2 x (number of categories) reads and no write, and the
\* collections are left as they were.
C12_LookupsPerCategoryWithDb ==
    [](C12_State) /\ [][vendors' = vendors /\ prefs' = prefs]_vars

\* a call over two categories returned after three reads: one category was
\* found in the region, the other by the fallback
C12_Witness ==
    \E p \in Procs :
        /\ RecommendDone(p) /\ db
        /\ Len(rv[p].categories) = 2
        /\ Len(oplog[p]) = 3

=============================================================================
